---- MODULE Spec2Model ----
(***************************************************************************)
(* A model of toy_api/table_generator.py: create_table and the functions   *)
(* it drives (_generate_shared, _generate_table, _generate_column,         *)
(* _generate_cell_value, _parse_column_spec, _write_tables).               *)
(*                                                                         *)
(* Python values are tagged pairs <<tag, payload>>; a Python str is a      *)
(* sequence of one-character strings, so that startswith / endswith /      *)
(* slicing and the regular expressions of the source are computed on the   *)
(* characters.  Optional values are <<>> (None) or <<v>>.  A dict is a     *)
(* sequence of entries in insertion order.                                 *)
(***************************************************************************)
EXTENDS Integers, Sequences, FiniteSets, TLC

VARIABLES
    doc,          \* table_config: [config, shared, tables], never assigned
    pc,           \* position inside create_table
    shared_data,  \* _generate_shared's / create_table's shared_data
    si,           \* index of the next entry of shared_def.items()
    all_tables,   \* create_table's all_tables
    ti,           \* index of the current entry of tables_def.items()
    row_count,    \* _generate_table's row_count once resolved
    table_data,   \* _generate_table's table_data
    args,         \* dest, file_type, partition_cols (and whether pyarrow imports)
    fs,           \* the files and directories written so far
    result,       \* what create_table returned
    err,          \* the exception that left create_table, "" if none
    run,          \* 1 in the first call of create_table on doc, 2 in the second
    prev          \* shape of what the previous call returned

vars == <<doc, pc, shared_data, si, all_tables, ti, row_count, table_data,
          args, fs, result, err, run, prev>>

-----------------------------------------------------------------------------
(* Bounds of the model *)

\* largest explicit row count written in a document (name[k], config value)
MaxCount == 3

\* the longest column of UNIQUE values, and the most cells drawn at random for
\* one value-spec
MaxUniqueRows == 10
MaxDraws == 2

(* Program constants *)

\* random.randint(10, 50): the default row count
DefaultMin == 10
DefaultMax == 50

\* _generate_unique_value: row_idx + 1000
UniqueOffset == 1000

-----------------------------------------------------------------------------
(* Python values *)

None == <<>>
Some(v) == <<v>>

PyInt(n) == <<"int", n>>
PyStr(s) == <<"str", s>>
PyBool(b) == <<"bool", b>>
PyList(l) == <<"list", l>>
PyNone == <<"none", <<>>>>
\* a float with two decimals, by its number of hundredths
PyFloat(h) == <<"float", h>>

IsStr(v) == v[1] = "str"

(* str operations *)

Digits == <<"0", "1", "2", "3", "4", "5", "6", "7", "8", "9">>
DigitSet == {Digits[i] : i \in 1..10}

DigitVal(c) == (CHOOSE i \in 1..10 : Digits[i] = c) - 1

\* str(n) / f"{n}" for n >= 0
RECURSIVE Dec(_)
Dec(n) == IF n < 10 THEN <<Digits[n + 1]>>
          ELSE Dec(n \div 10) \o <<Digits[(n % 10) + 1]>>

\* int(s) for a string of decimal digits
RECURSIVE ParseInt(_)
ParseInt(s) == IF Len(s) = 0 THEN 0
               ELSE ParseInt(SubSeq(s, 1, Len(s) - 1)) * 10 + DigitVal(s[Len(s)])

StartsWith(s, p) == Len(s) >= Len(p) /\ SubSeq(s, 1, Len(p)) = p
EndsWith(s, p) == Len(s) >= Len(p) /\ SubSeq(s, Len(s) - Len(p) + 1, Len(s)) = p

\* index of the first character of s at or after i that is in C, Len(s)+1 if none:
\* where a greedy [^C]+ that starts at i stops
FirstIn(s, i, C) ==
    IF \E j \in i..Len(s) : s[j] \in C
    THEN CHOOSE j \in i..Len(s) : s[j] \in C /\ \A k \in i..(j - 1) : s[k] \notin C
    ELSE Len(s) + 1

\* index of the first character of s at or after i that is not in C:
\* where a greedy [C]+ that starts at i stops
FirstNotIn(s, i, C) ==
    IF \E j \in i..Len(s) : s[j] \notin C
    THEN CHOOSE j \in i..Len(s) : s[j] \notin C /\ \A k \in i..(j - 1) : s[k] \in C
    ELSE Len(s) + 1

CharAt(s, i) == IF i \in 1..Len(s) THEN s[i] ELSE ""

Whitespace == {" ", "\t", "\n", "\r"}

\* s.strip()
Strip(s) ==
    LET a == FirstNotIn(s, 1, Whitespace)
    IN  IF a > Len(s) THEN <<>>
        ELSE SubSeq(s, a, CHOOSE j \in a..Len(s) :
                            /\ s[j] \notin Whitespace
                            /\ \A k \in (j + 1)..Len(s) : s[k] \in Whitespace)

\* s.replace(c, '') for a character c
Remove(s, c) == SelectSeq(s, LAMBDA x : x # c)

\* s.split(sep) for a character sep
RECURSIVE Split(_, _)
Split(s, sep) ==
    LET i == FirstIn(s, 1, {sep})
    IN  IF i > Len(s) THEN <<s>>
        ELSE <<SubSeq(s, 1, i - 1)>> \o Split(SubSeq(s, i + 1, Len(s)), sep)

\* s.isdigit(), for ASCII
IsDigitStr(s) == Len(s) > 0 /\ \A i \in 1..Len(s) : s[i] \in DigitSet

\* int(s): None where it raises ValueError.  Surrounding whitespace and one sign
\* are accepted (underscores between digits, which int() also accepts, are not
\* modelled)
IntOf(s) ==
    LET t == Strip(s)
        signed == Len(t) > 0 /\ t[1] \in {"+", "-"}
        d == IF signed THEN Tail(t) ELSE t
    IN  IF ~IsDigitStr(d) THEN None
        ELSE IF signed /\ t[1] = "-" THEN Some(0 - ParseInt(d))
        ELSE Some(ParseInt(d))

Min(a, b) == IF a <= b THEN a ELSE b

(* dict operations on sequences of [key, val] entries *)

Entry(k, v) == [key |-> k, val |-> v]

DictHas(d, k) == \E i \in 1..Len(d) : d[i].key = k
DictGet(d, k) == d[CHOOSE i \in 1..Len(d) : d[i].key = k].val
DictKeys(d) == [i \in 1..Len(d) |-> d[i].key]
DictValues(d) == [i \in 1..Len(d) |-> d[i].val]

\* d[k] = v: an existing key keeps its position, a new key goes last
DictSet(d, k, v) ==
    IF DictHas(d, k)
    THEN [i \in 1..Len(d) |-> IF d[i].key = k THEN [key |-> k, val |-> v] ELSE d[i]]
    ELSE Append(d, [key |-> k, val |-> v])

-----------------------------------------------------------------------------
(* _parse_column_spec *)

\* re.match(r'([^\[]+)\[\[([^\]]+)\]\]', col_spec): <<>> or <<group 1, group 2>>
MatchConfigVar(col_spec) ==
    LET b == FirstIn(col_spec, 1, {"["})
        e == FirstIn(col_spec, b + 2, {"]"})
    IN  IF /\ b > 1
           /\ CharAt(col_spec, b) = "[" /\ CharAt(col_spec, b + 1) = "["
           /\ e > b + 2
           /\ CharAt(col_spec, e) = "]" /\ CharAt(col_spec, e + 1) = "]"
        THEN <<SubSeq(col_spec, 1, b - 1), SubSeq(col_spec, b + 2, e - 1)>>
        ELSE <<>>

\* re.match(r'([^\[]+)\[(\d+)\]', col_spec): <<>> or <<group 1, group 2>>
MatchIntCount(col_spec) ==
    LET b == FirstIn(col_spec, 1, {"["})
        e == FirstNotIn(col_spec, b + 1, DigitSet)
    IN  IF /\ b > 1
           /\ CharAt(col_spec, b) = "["
           /\ e > b + 1
           /\ CharAt(col_spec, e) = "]"
        THEN <<SubSeq(col_spec, 1, b - 1), SubSeq(col_spec, b + 1, e - 1)>>
        ELSE <<>>

\* a mutant: a [[VAR]] that config does not hold counts as 0
ParseColumnSpecMissingIsZero(col_spec, config_values) ==
    LET m1 == MatchConfigVar(col_spec)
        m2 == MatchIntCount(col_spec)
    IN  IF m1 # <<>>
        THEN [name |-> m1[1],
              row_count |-> IF DictHas(config_values, m1[2])
                            THEN Some(DictGet(config_values, m1[2])) ELSE Some(0)]
        ELSE IF m2 # <<>>
        THEN [name |-> m2[1], row_count |-> Some(ParseInt(m2[2]))]
        ELSE [name |-> col_spec, row_count |-> None]

\* [name, row_count]; config_values.get(config_var) is None for a missing key
ParseColumnSpec(col_spec, config_values) ==
    LET m1 == MatchConfigVar(col_spec)
        m2 == MatchIntCount(col_spec)
    IN  IF m1 # <<>>
        THEN [name |-> m1[1],
              row_count |-> IF DictHas(config_values, m1[2])
                            THEN Some(DictGet(config_values, m1[2])) ELSE None]
        ELSE IF m2 # <<>>
        THEN [name |-> m2[1], row_count |-> Some(ParseInt(m2[2]))]
        ELSE [name |-> col_spec, row_count |-> None]

-----------------------------------------------------------------------------
(* Outcomes of a call: a returned value or a raised exception *)

Ok(v) == [err |-> "", val |-> v]
Raise(e) == [err |-> e, val |-> None]

(* str constants of the source *)

S_UNIQUE == <<"U", "N", "I", "Q", "U", "E", "[">>
S_unique == <<"u", "n", "i", "q", "u", "e", "_">>
S_int == <<"i", "n", "t">>
S_str == <<"s", "t", "r">>
S_bool == <<"b", "o", "o", "l">>
S_LL == <<"[", "[">>
S_RR == <<"]", "]">>
S_float == <<"f", "l", "o", "a", "t">>
S_NAME == <<"N", "A", "M", "E">>
S_NAMES == <<"N", "A", "M", "E", "S">>
S_CHOOSE == <<"C", "H", "O", "O", "S", "E", "[">>

(* random *)

\* random.choice(items)
RandomChoice(items) ==
    IF Len(items) = 0 THEN {Raise("IndexError")}
    ELSE {Ok(items[i]) : i \in 1..Len(items)}

\* a mutant: a position may be taken more than once
RandomSampleWithReplacement(items, count) ==
    IF count < 0 \/ count > Len(items) THEN {Raise("ValueError")}
    ELSE {Ok(PyList([i \in 1..count |-> items[f[i]]])) :
            f \in [1..count -> 1..Len(items)]}

\* random.sample(items, count): count items at distinct positions, in any order
RandomSample(items, count) ==
    IF count < 0 \/ count > Len(items) THEN {Raise("ValueError")}
    ELSE {Ok(PyList([i \in 1..count |-> items[f[i]]])) :
            f \in {g \in [1..count -> 1..Len(items)] :
                     \A i, j \in 1..count : g[i] = g[j] => i = j}}

\* random.sample(items, min(random.randint(1, len(items)), len(items)))
RandomSampleAnySize(items) ==
    IF Len(items) = 0 THEN {Raise("ValueError")}
    ELSE UNION {RandomSample(items, Min(c, Len(items))) : c \in 1..Len(items)}

PyStrs(l) == [i \in 1..Len(l) |-> PyStr(l[i])]

\* f"{n:04d}"
ZeroPad4(n) ==
    LET d == Dec(n)
    IN  IF Len(d) >= 4 THEN d ELSE [i \in 1..(4 - Len(d)) |-> "0"] \o d

(* toy_api/constants.py *)

FIRST_NAMES ==
    <<<<"A", "l", "i", "c", "e">>, <<"B", "o", "b">>,
      <<"C", "h", "a", "r", "l", "i", "e">>, <<"D", "i", "a", "n", "a">>,
      <<"E", "d", "w", "a", "r", "d">>, <<"F", "i", "o", "n", "a">>,
      <<"G", "e", "o", "r", "g", "e">>, <<"H", "e", "l", "e", "n">>,
      <<"I", "a", "n">>, <<"J", "u", "l", "i", "a">>,
      <<"K", "e", "v", "i", "n">>, <<"L", "u", "n", "a">>,
      <<"M", "a", "r", "k">>, <<"N", "i", "n", "a">>,
      <<"O", "s", "c", "a", "r">>, <<"P", "a", "u", "l", "a">>>>

LAST_NAMES ==
    <<<<"A", "n", "d", "e", "r", "s", "o", "n">>, <<"B", "r", "o", "w", "n">>,
      <<"C", "h", "e", "n">>, <<"D", "a", "v", "i", "s">>,
      <<"E", "v", "a", "n", "s">>, <<"F", "o", "s", "t", "e", "r">>,
      <<"G", "a", "r", "c", "i", "a">>, <<"H", "a", "r", "r", "i", "s">>,
      <<"J", "a", "c", "k", "s", "o", "n">>, <<"K", "i", "m">>,
      <<"L", "o", "p", "e", "z">>, <<"M", "i", "l", "l", "e", "r">>,
      <<"N", "e", "l", "s", "o", "n">>,
      <<"O", "'", "C", "o", "n", "n", "o", "r">>,
      <<"P", "a", "r", "k", "e", "r">>, <<"Q", "u", "i", "n", "n">>>>

POST_TITLES ==
    <<<<"I", "n", "t", "r", "o", "d", "u", "c", "t", "i", "o", "n", " ", "t", "o", " ", "A", "P", "I", "s">>,
      <<"B", "u", "i", "l", "d", "i", "n", "g", " ", "S", "c", "a", "l", "a", "b", "l", "e", " ", "S", "y", "s", "t", "e", "m", "s">>,
      <<"D", "a", "t", "a", "b", "a", "s", "e", " ", "D", "e", "s", "i", "g", "n", " ", "P", "a", "t", "t", "e", "r", "n", "s">>,
      <<"S", "e", "c", "u", "r", "i", "t", "y", " ", "B", "e", "s", "t", " ", "P", "r", "a", "c", "t", "i", "c", "e", "s">>,
      <<"T", "e", "s", "t", "i", "n", "g", " ", "S", "t", "r", "a", "t", "e", "g", "i", "e", "s">>,
      <<"D", "e", "v", "O", "p", "s", " ", "F", "u", "n", "d", "a", "m", "e", "n", "t", "a", "l", "s">>,
      <<"C", "o", "d", "e", " ", "R", "e", "v", "i", "e", "w", " ", "G", "u", "i", "d", "e", "l", "i", "n", "e", "s">>,
      <<"P", "e", "r", "f", "o", "r", "m", "a", "n", "c", "e", " ", "O", "p", "t", "i", "m", "i", "z", "a", "t", "i", "o", "n">>,
      <<"D", "o", "c", "u", "m", "e", "n", "t", "a", "t", "i", "o", "n", " ", "S", "t", "a", "n", "d", "a", "r", "d", "s">>>>

LOCATIONS ==
    <<<<"S", "a", "n", " ", "F", "r", "a", "n", "c", "i", "s", "c", "o">>,
      <<"N", "e", "w", " ", "Y", "o", "r", "k">>,
      <<"L", "o", "n", "d", "o", "n">>, <<"T", "o", "k", "y", "o">>,
      <<"B", "e", "r", "l", "i", "n">>, <<"T", "o", "r", "o", "n", "t", "o">>,
      <<"S", "y", "d", "n", "e", "y">>,
      <<"A", "m", "s", "t", "e", "r", "d", "a", "m">>,
      <<"B", "a", "r", "c", "e", "l", "o", "n", "a">>,
      <<"S", "i", "n", "g", "a", "p", "o", "r", "e">>,
      <<"A", "u", "s", "t", "i", "n">>, <<"S", "e", "a", "t", "t", "l", "e">>,
      <<"P", "o", "r", "t", "l", "a", "n", "d">>>>

PERMISSIONS ==
    <<<<"r", "e", "a", "d">>, <<"w", "r", "i", "t", "e">>,
      <<"d", "e", "l", "e", "t", "e">>, <<"a", "d", "m", "i", "n">>,
      <<"c", "r", "e", "a", "t", "e">>, <<"u", "p", "d", "a", "t", "e">>,
      <<"e", "x", "e", "c", "u", "t", "e">>, <<"m", "a", "n", "a", "g", "e">>>>

THEMES ==
    <<<<"l", "i", "g", "h", "t">>, <<"d", "a", "r", "k">>,
      <<"a", "u", "t", "o">>>>

LANGUAGES ==
    <<<<"e", "n">>, <<"e", "s">>, <<"f", "r">>, <<"d", "e">>, <<"i", "t">>,
      <<"p", "t">>, <<"j", "a">>, <<"k", "o">>, <<"z", "h">>>>

POST_TAGS ==
    <<<<"t", "e", "c", "h">>, <<"a", "p", "i">>,
      <<"t", "u", "t", "o", "r", "i", "a", "l">>, <<"g", "u", "i", "d", "e">>,
      <<"t", "i", "p", "s">>,
      <<"b", "e", "s", "t", "-", "p", "r", "a", "c", "t", "i", "c", "e", "s">>,
      <<"d", "e", "v", "e", "l", "o", "p", "m", "e", "n", "t">>,
      <<"p", "r", "o", "g", "r", "a", "m", "m", "i", "n", "g">>,
      <<"w", "e", "b">>, <<"m", "o", "b", "i", "l", "e">>,
      <<"d", "a", "t", "a", "b", "a", "s", "e">>,
      <<"s", "e", "c", "u", "r", "i", "t", "y">>,
      <<"p", "e", "r", "f", "o", "r", "m", "a", "n", "c", "e">>>>

ADMIN_ACTIVITIES ==
    <<<<"U", "s", "e", "r", " ", "l", "o", "g", "i", "n">>,
      <<"D", "a", "t", "a", " ", "b", "a", "c", "k", "u", "p">>,
      <<"S", "y", "s", "t", "e", "m", " ", "u", "p", "d", "a", "t", "e">>,
      <<"S", "e", "c", "u", "r", "i", "t", "y", " ", "s", "c", "a", "n">>,
      <<"C", "a", "c", "h", "e", " ", "r", "e", "f", "r", "e", "s", "h">>,
      <<"D", "a", "t", "a", "b", "a", "s", "e", " ", "m", "a", "i", "n", "t", "e", "n", "a", "n", "c", "e">>,
      <<"L", "o", "g", " ", "r", "o", "t", "a", "t", "i", "o", "n">>,
      <<"C", "o", "n", "f", "i", "g", " ", "u", "p", "d", "a", "t", "e">>>>

\* table_generator.py imports JOBS from constants.py, which does not define it;
\* a pool of two entries stands for it
JOBS == <<<<"j", "o", "b", "1">>, <<"j", "o", "b", "2">>>>

CONSTANT_MAP ==
    <<Entry(<<"F", "I", "R", "S", "T", "_", "N", "A", "M", "E", "S">>, FIRST_NAMES),
      Entry(<<"L", "A", "S", "T", "_", "N", "A", "M", "E", "S">>, LAST_NAMES),
      Entry(<<"P", "O", "S", "T", "_", "T", "I", "T", "L", "E", "S">>, POST_TITLES),
      Entry(<<"L", "O", "C", "A", "T", "I", "O", "N", "S">>, LOCATIONS),
      Entry(<<"P", "E", "R", "M", "I", "S", "S", "I", "O", "N", "S">>, PERMISSIONS),
      Entry(<<"T", "H", "E", "M", "E", "S">>, THEMES),
      Entry(<<"L", "A", "N", "G", "U", "A", "G", "E", "S">>, LANGUAGES),
      Entry(<<"P", "O", "S", "T", "_", "T", "A", "G", "S">>, POST_TAGS),
      Entry(<<"A", "D", "M", "I", "N", "_", "A", "C", "T", "I", "V", "I", "T", "I", "E", "S">>,
            ADMIN_ACTIVITIES),
      Entry(<<"J", "O", "B", "S">>, JOBS),
      Entry(<<"F", "I", "R", "S", "T", "_", "N", "A", "M", "E">>, FIRST_NAMES),
      Entry(<<"L", "A", "S", "T", "_", "N", "A", "M", "E">>, LAST_NAMES),
      Entry(<<"P", "O", "S", "T", "_", "T", "I", "T", "L", "E">>, POST_TITLES),
      Entry(<<"L", "O", "C", "A", "T", "I", "O", "N">>, LOCATIONS),
      Entry(<<"P", "E", "R", "M", "I", "S", "S", "I", "O", "N">>, PERMISSIONS),
      Entry(<<"T", "H", "E", "M", "E">>, THEMES),
      Entry(<<"L", "A", "N", "G", "U", "A", "G", "E">>, LANGUAGES),
      Entry(<<"P", "O", "S", "T", "_", "T", "A", "G">>, POST_TAGS),
      Entry(<<"A", "D", "M", "I", "N", "_", "A", "C", "T", "I", "V", "I", "T", "Y">>,
            ADMIN_ACTIVITIES),
      Entry(<<"J", "O", "B">>, JOBS)>>

(* _generate_unique_value *)

\* re.match(r'UNIQUE\[([^\]]+)\]', value_spec): <<>> or <<group 1>>
MatchUnique(s) ==
    LET b == Len(S_UNIQUE) + 1
        e == FirstIn(s, b, {"]"})
    IN  IF StartsWith(s, S_UNIQUE) /\ e > b /\ CharAt(s, e) = "]"
        THEN <<SubSeq(s, b, e - 1)>>
        ELSE <<>>

\* a mutant: the str variant is not zero-padded
GenerateUniqueValueUnpadded(s, row_idx) ==
    LET m == MatchUnique(s)
    IN  IF m = <<>> THEN PyInt(row_idx)
        ELSE IF m[1] = S_int THEN PyInt(row_idx + UniqueOffset)
        ELSE IF m[1] = S_str THEN PyStr(S_unique \o Dec(row_idx))
        ELSE PyStr(m[1] \o <<"_">> \o Dec(row_idx))

GenerateUniqueValue(s, row_idx) ==
    LET m == MatchUnique(s)
    IN  IF m = <<>> THEN PyInt(row_idx)
        ELSE IF m[1] = S_int THEN PyInt(row_idx + UniqueOffset)
        ELSE IF m[1] = S_str THEN PyStr(S_unique \o ZeroPad4(row_idx))
        ELSE PyStr(m[1] \o <<"_">> \o Dec(row_idx))

(* _generate_choose_value *)

\* re.match(r'CHOOSE\[\[([^\]]+)\]\](?:\[\[([^\]]+)\]\])?', value_spec):
\* <<>> or <<group 1, group 2>>, group 2 being None where the optional part
\* does not match
MatchChoose(s) ==
    LET b == Len(S_CHOOSE) + 2
        e == FirstIn(s, b, {"]"})
        c == e + 4
        f == FirstIn(s, c, {"]"})
    IN  IF ~(/\ StartsWith(s, S_CHOOSE \o <<"[">>)
             /\ e > b
             /\ CharAt(s, e) = "]" /\ CharAt(s, e + 1) = "]")
        THEN <<>>
        ELSE IF /\ CharAt(s, e + 2) = "[" /\ CharAt(s, e + 3) = "["
                /\ f > c
                /\ CharAt(s, f) = "]" /\ CharAt(s, f + 1) = "]"
        THEN <<SubSeq(s, b, e - 1), Some(SubSeq(s, c, f - 1))>>
        ELSE <<SubSeq(s, b, e - 1), None>>

\* lines 382-390: the items, a range of ints or the stripped parts of a list
ChooseItems(items_spec) ==
    IF /\ \E i \in 1..Len(items_spec) : items_spec[i] = "-"
       /\ IsDigitStr(Remove(Remove(items_spec, "-"), " "))
    THEN LET parts == Split(items_spec, "-")
             start == IntOf(parts[1])
             end == IntOf(parts[2])
         IN  IF start = None \/ end = None THEN Raise("ValueError")
             ELSE Ok([i \in 1..(end[1] - start[1] + 1) |-> PyInt(start[1] + i - 1)])
    ELSE LET parts == Split(items_spec, ",")
         IN  Ok([i \in 1..Len(parts) |-> PyStr(Strip(parts[i]))])

\* a mutant: the count 1 is an explicit count like any other, giving a list
GenerateChooseValueListOfOne(s) ==
    LET m == MatchChoose(s)
    IN  IF m = <<>> THEN {Ok(PyNone)}
        ELSE LET parsed == ChooseItems(m[1])
                 items == parsed.val
                 count_spec == m[2]
             IN  IF parsed.err # "" THEN {parsed}
                 ELSE IF count_spec = None THEN RandomChoice(items)
                 ELSE IF count_spec[1] = <<"n">> THEN RandomSampleAnySize(items)
                 ELSE IF IntOf(count_spec[1]) = None THEN {Raise("ValueError")}
                 ELSE RandomSample(items, Min(IntOf(count_spec[1])[1], Len(items)))

GenerateChooseValue(s) ==
    LET m == MatchChoose(s)
    IN  IF m = <<>> THEN {Ok(PyNone)}
        ELSE LET parsed == ChooseItems(m[1])
                 items == parsed.val
                 count_spec == m[2]
             IN  IF parsed.err # "" THEN {parsed}
                 ELSE IF count_spec = None THEN RandomChoice(items)
                 ELSE IF count_spec[1] = <<"n">> THEN RandomSampleAnySize(items)
                 ELSE IF count_spec[1] = <<"1">> THEN RandomChoice(items)
                 ELSE IF IntOf(count_spec[1]) = None THEN {Raise("ValueError")}
                 ELSE RandomSample(items, Min(IntOf(count_spec[1])[1], Len(items)))

(* _generate_cell_value: constant pools, NAME and the basic types *)

UpperOrUnderscore ==
    {"A", "B", "C", "D", "E", "F", "G", "H", "I", "J", "K", "L", "M", "N", "O", "P",
     "Q", "R", "S", "T", "U", "V", "W", "X", "Y", "Z", "_"}

\* string.ascii_letters + string.digits
AsciiAlnum ==
    {"a", "b", "c", "d", "e", "f", "g", "h", "i", "j", "k", "l", "m", "n", "o", "p",
     "q", "r", "s", "t", "u", "v", "w", "x", "y", "z"}
    \cup (UpperOrUnderscore \ {"_"}) \cup DigitSet

\* re.match(r'([A-Z_]+)\[([n0-9]+)\]', value_spec): <<>> or <<group 1, group 2>>
MatchPoolCount(s) ==
    LET b == FirstNotIn(s, 1, UpperOrUnderscore)
        e == FirstNotIn(s, b + 1, DigitSet \cup {"n"})
    IN  IF b > 1 /\ CharAt(s, b) = "[" /\ e > b + 1 /\ CharAt(s, e) = "]"
        THEN <<SubSeq(s, 1, b - 1), SubSeq(s, b + 1, e - 1)>>
        ELSE <<>>

\* a mutant: a plural pool name gives one element too
PoolOutcomesAlwaysOne(s) == RandomChoice(PyStrs(DictGet(CONSTANT_MAP, s)))

\* lines 299-305: a pool name
PoolOutcomes(s) ==
    IF EndsWith(s, <<"S">>) THEN RandomSampleAnySize(PyStrs(DictGet(CONSTANT_MAP, s)))
    ELSE RandomChoice(PyStrs(DictGet(CONSTANT_MAP, s)))

\* a mutant: the count is not clamped to the size of the pool
PoolCountOutcomesUnclamped(const_name, count_spec) ==
    LET const_list == PyStrs(DictGet(CONSTANT_MAP, const_name))
    IN  IF count_spec = <<"n">> THEN RandomSampleAnySize(const_list)
        ELSE IF IntOf(count_spec) = None THEN {Raise("ValueError")}
        ELSE RandomSample(const_list, IntOf(count_spec)[1])

\* lines 314-320: POOL[n] or POOL[<int>] for a known pool
PoolCountOutcomes(const_name, count_spec) ==
    LET const_list == PyStrs(DictGet(CONSTANT_MAP, const_name))
    IN  IF count_spec = <<"n">> THEN RandomSampleAnySize(const_list)
        ELSE IF IntOf(count_spec) = None THEN {Raise("ValueError")}
        ELSE RandomSample(const_list, Min(IntOf(count_spec)[1], Len(const_list)))

\* f"{random.choice(FIRST_NAMES)} {random.choice(LAST_NAMES)}"
FullNames ==
    {PyStr(FIRST_NAMES[i] \o <<" ">> \o LAST_NAMES[j]) :
        i \in 1..Len(FIRST_NAMES), j \in 1..Len(LAST_NAMES)}

\* lines 283-288
NameOutcomes(s) ==
    IF s = S_NAME THEN {Ok(n) : n \in FullNames}
    ELSE {Ok(PyList(l)) : l \in UNION {[1..count -> FullNames] : count \in 1..5}}

\* lines 323-330: str, int, float, bool
IsBasicType(s) == s \in {S_str, S_int, S_float, S_bool}
BasicTypeOutcomes(s) ==
    IF s = S_str THEN {Ok(PyStr(q)) : q \in [1..10 -> AsciiAlnum]}
    ELSE IF s = S_int THEN {Ok(PyInt(n)) : n \in 0..1000}
    ELSE IF s = S_float THEN {Ok(PyFloat(h)) : h \in 0..100000}
    ELSE {Ok(PyBool(TRUE)), Ok(PyBool(FALSE))}

(* _generate_cell_value *)

\* isinstance(value_spec, str) and value_spec.startswith("[[") and
\* value_spec.endswith("]]")
IsSharedRef(value_spec) ==
    /\ IsStr(value_spec)
    /\ StartsWith(value_spec[2], S_LL)
    /\ EndsWith(value_spec[2], S_RR)

\* value_spec[2:-2]
SharedColName(value_spec) ==
    LET s == value_spec[2] IN SubSeq(s, 3, Len(s) - 2)

\* a mutant: the lookup ignores the row index
SharedLookupAny(shared_col, row_idx) == RandomChoice(shared_col)

\* lines 273-278: shared_col[row_idx] inside the column, random.choice(shared_col)
\* past its end; random.choice of an empty list raises IndexError
SharedLookup(shared_col, row_idx) ==
    IF row_idx < Len(shared_col) THEN {Ok(shared_col[row_idx + 1])}
    ELSE RandomChoice(shared_col)

\* lines 270-280
SharedRefOutcomes(value_spec, row_idx, sd) ==
    IF DictHas(sd, SharedColName(value_spec))
    THEN SharedLookup(DictGet(sd, SharedColName(value_spec)), row_idx)
    ELSE {Raise("ValueError")}

\* The set of outcomes of _generate_cell_value(value_spec, row_idx, _, sd), one
\* per sequence of random draws.  A value-spec that is not a str is no shared
\* reference and equals neither "NAME" nor "NAMES"; value_spec.startswith then
\* raises AttributeError.
CellOutcomes(value_spec, row_idx, sd) ==
    IF IsSharedRef(value_spec) THEN SharedRefOutcomes(value_spec, row_idx, sd)
    ELSE IF ~IsStr(value_spec) THEN {Raise("AttributeError")}
    ELSE LET s == value_spec[2]
             m == MatchPoolCount(s)
         IN  IF s \in {S_NAME, S_NAMES} THEN NameOutcomes(s)
             ELSE IF StartsWith(s, S_UNIQUE) THEN {Ok(GenerateUniqueValue(s, row_idx))}
             ELSE IF StartsWith(s, S_CHOOSE) THEN GenerateChooseValue(s)
             ELSE IF DictHas(CONSTANT_MAP, s) THEN PoolOutcomes(s)
             ELSE IF m # <<>> /\ DictHas(CONSTANT_MAP, m[1])
             THEN PoolCountOutcomes(m[1], m[2])
             ELSE IF IsBasicType(s) THEN BasicTypeOutcomes(s)
             ELSE {Ok(value_spec)}

(* _generate_column *)

\* outcomes of the loop of lines 245-248 after n iterations: the column so far,
\* or the exception of the first cell that raised
RECURSIVE ColumnOutcomes(_, _, _)
ColumnOutcomes(value_spec, n, sd) ==
    IF n = 0 THEN {Ok(<<>>)}
    ELSE UNION {
           IF p.err # "" THEN {p}
           ELSE { IF c.err # "" THEN Raise(c.err) ELSE Ok(Append(p.val, c.val))
                  : c \in CellOutcomes(value_spec, n - 1, sd) }
           : p \in ColumnOutcomes(value_spec, n - 1, sd) }

\* a mutant: a row count of 0 is taken for no row count
RowCountsZeroIsDefault(count) ==
    IF count = None \/ count[1] = 0 THEN DefaultMin..DefaultMax ELSE {count[1]}

\* random.randint(10, 50) when row_count is None
RowCounts(count) ==
    IF count = None THEN DefaultMin..DefaultMax ELSE {count[1]}

(* _generate_table *)

\* a mutant: the last shared reference decides instead of the first
InferRowCountLast(columns, sd) ==
    LET hits == {i \in 1..Len(columns) :
                    /\ IsSharedRef(columns[i].val)
                    /\ DictHas(sd, SharedColName(columns[i].val))}
    IN  IF hits = {} THEN None
        ELSE LET i == CHOOSE j \in hits : \A k \in hits : k <= j
             IN  Some(Len(DictGet(sd, SharedColName(columns[i].val))))

\* lines 203-208: the first column, in order, that is a shared reference to a
\* column present in shared_data gives the row count; None if there is none
InferRowCount(columns, sd) ==
    LET hits == {i \in 1..Len(columns) :
                    /\ IsSharedRef(columns[i].val)
                    /\ DictHas(sd, SharedColName(columns[i].val))}
    IN  IF hits = {} THEN None
        ELSE LET i == CHOOSE j \in hits : \A k \in hits : j <= k
             IN  Some(Len(DictGet(sd, SharedColName(columns[i].val))))

\* a mutant: shared references are looked at even when the key has a count
ResolveRowCountInferFirst(table_spec, columns, sd, config_values) ==
    LET inferred == InferRowCount(columns, sd)
    IN  IF inferred # None THEN inferred
        ELSE ParseColumnSpec(table_spec, config_values).row_count

\* a mutant: the count of the table key is not used
ResolveRowCountIgnoreKey(table_spec, columns, sd, config_values) ==
    InferRowCount(columns, sd)

\* lines 198-208: the row count before the random default, None if undetermined
ResolveRowCount(table_spec, columns, sd, config_values) ==
    LET parsed == ParseColumnSpec(table_spec, config_values)
    IN  IF parsed.row_count # None THEN parsed.row_count
        ELSE InferRowCount(columns, sd)

\* a mutant: a shared reference past the end of its column is left out of the row
RECURSIVE RowOutcomesSkipPastEnd(_, _, _, _)
RowOutcomesSkipPastEnd(columns, k, row_idx, sd) ==
    IF k = 0 THEN {Ok(<<>>)}
    ELSE UNION {
           IF p.err # "" THEN {p}
           ELSE IF /\ IsSharedRef(columns[k].val)
                   /\ DictHas(sd, SharedColName(columns[k].val))
                   /\ row_idx >= Len(DictGet(sd, SharedColName(columns[k].val)))
           THEN {p}
           ELSE { IF c.err # "" THEN Raise(c.err)
                  ELSE Ok(DictSet(p.val, columns[k].key, c.val))
                  : c \in CellOutcomes(columns[k].val, row_idx, sd) }
           : p \in RowOutcomesSkipPastEnd(columns, k - 1, row_idx, sd) }

\* outcomes of lines 217-220 for the first k columns of one row: the row dict
\* so far, or the exception of the first cell that raised
RECURSIVE RowOutcomes(_, _, _, _)
RowOutcomes(columns, k, row_idx, sd) ==
    IF k = 0 THEN {Ok(<<>>)}
    ELSE UNION {
           IF p.err # "" THEN {p}
           ELSE { IF c.err # "" THEN Raise(c.err)
                  ELSE Ok(DictSet(p.val, columns[k].key, c.val))
                  : c \in CellOutcomes(columns[k].val, row_idx, sd) }
           : p \in RowOutcomes(columns, k - 1, row_idx, sd) }

-----------------------------------------------------------------------------
(* create_table: the returned value *)

\* a mutant: an empty all_tables is returned as a list too
ReturnValueAtMostOne(tables) ==
    IF Len(tables) <= 1
    THEN <<"list", IF Len(tables) = 1 THEN DictValues(tables)[1] ELSE <<>>>>
    ELSE <<"dict", tables>>

\* lines 116-121: the rows of the only table, or all_tables itself
ReturnValue(tables) ==
    IF Len(tables) = 1 THEN <<"list", DictValues(tables)[1]>>
    ELSE <<"dict", tables>>

-----------------------------------------------------------------------------
(* _write_tables and the writers.  A Path is the sequence of its components; *)
(* the file system is a set of entries [path, kind, format, rows], where     *)
(* rows holds, per row written, the keys of that row.                        *)

S_parquet == <<"p", "a", "r", "q", "u", "e", "t">>
S_csv == <<"c", "s", "v">>
S_json == <<"j", "s", "o", "n">>
S_ldjson == <<"l", "d", "-", "j", "s", "o", "n">>

Parent(path) == IF Len(path) = 0 THEN path ELSE SubSeq(path, 1, Len(path) - 1)

\* the keys of every row of a table, row by row
RowKeys(data) == [i \in 1..Len(data) |-> DictKeys(data[i])]

\* path.mkdir(parents=True, exist_ok=True)
Mkdir(files, path) ==
    files \cup {[path |-> SubSeq(path, 1, n), kind |-> "dir",
                 format |-> <<>>, rows |-> <<>>] :
                  n \in {m \in 1..Len(path) :
                           ~\E f \in files : f.path = SubSeq(path, 1, m)}}

\* open(file_path, 'w') and the writes that follow, or a pyarrow write
PutFile(files, path, kind, format, rows) ==
    {f \in files : f.path # path}
        \cup {[path |-> path, kind |-> kind, format |-> format, rows |-> rows]}

\* _write_parquet: [err, fs]
WriteParquet(files, data, file_path, a) ==
    IF ~a.pyarrow THEN [err |-> "ImportError", fs |-> files]
    ELSE IF a.partition_cols # None
    THEN [err |-> "",
          fs |-> PutFile(files, Parent(file_path), "dataset", S_parquet, RowKeys(data))]
    ELSE [err |-> "",
          fs |-> PutFile(files, file_path, "file", S_parquet, RowKeys(data))]

\* _write_csv: nothing is opened for an empty table
WriteCsv(files, data, file_path) ==
    IF Len(data) = 0 THEN [err |-> "", fs |-> files]
    ELSE [err |-> "", fs |-> PutFile(files, file_path, "file", S_csv, RowKeys(data))]

\* a mutant: like the csv writer, nothing is opened for an empty table
WriteJsonSkipsEmpty(files, data, file_path, format) ==
    IF Len(data) = 0 THEN [err |-> "", fs |-> files]
    ELSE [err |-> "", fs |-> PutFile(files, file_path, "file", format, RowKeys(data))]

\* _write_json and _write_ld_json
WriteJson(files, data, file_path, format) ==
    [err |-> "", fs |-> PutFile(files, file_path, "file", format, RowKeys(data))]

\* _write_single_table
WriteSingleTable(files, data, file_path, a) ==
    LET made == Mkdir(files, Parent(file_path))
    IN  IF a.file_type = S_parquet THEN WriteParquet(made, data, file_path, a)
        ELSE IF a.file_type = S_csv THEN WriteCsv(made, data, file_path)
        ELSE IF a.file_type = S_json THEN WriteJson(made, data, file_path, S_json)
        ELSE IF a.file_type = S_ldjson THEN WriteJson(made, data, file_path, S_ldjson)
        ELSE [err |-> "", fs |-> made]

\* f"{table_name}.{file_type}"
TableFileName(table_name, file_type) == table_name \o <<".">> \o file_type

\* the loop of lines 474-476 over the first n tables: [err, fs]
RECURSIVE WriteEach(_, _, _, _, _)
WriteEach(files, tables, n, dest_path, a) ==
    IF n = 0 THEN [err |-> "", fs |-> files]
    ELSE LET before == WriteEach(files, tables, n - 1, dest_path, a)
         IN  IF before.err # "" THEN before
             ELSE WriteSingleTable(before.fs, tables[n].val,
                      Append(dest_path, TableFileName(tables[n].key, a.file_type)), a)

\* _write_tables: [err, fs]
WriteTablesTo(files, tables, a) ==
    LET dest_path == a.dest[1]
    IN  IF Len(tables) = 1
        THEN WriteSingleTable(files, DictValues(tables)[1], dest_path, a)
        ELSE WriteEach(Mkdir(files, dest_path), tables, Len(tables), dest_path, a)

-----------------------------------------------------------------------------
(* The documents create_table is called on *)

N_a == <<"a">>
N_b == <<"b">>
N_c == <<"c">>
N_t == <<"t">>
N_u == <<"u">>
V_NA == <<"N", "A">>
V_NT == <<"N", "T">>

UniqueInt == PyStr(S_UNIQUE \o S_int \o <<"]">>)
UniqueStr == PyStr(S_UNIQUE \o S_str \o <<"]">>)
Bool == PyStr(S_bool)
Lit == PyStr(<<"l", "i", "t">>)
Ref(name) == PyStr(S_LL \o name \o S_RR)

\* a row-count annotation: none, a literal [k], [[VAR]] with VAR in config, or
\* [[VAR]] with VAR not in config
Counts == 0..MaxCount
Anns == {[kind |-> "none", k |-> 0], [kind |-> "missing", k |-> 0]}
            \cup {[kind |-> "lit", k |-> k] : k \in Counts}
            \cup {[kind |-> "var", k |-> k] : k \in Counts}
LitAnn(k) == [kind |-> "lit", k |-> k]

\* the spec key name<annotation>
Key(name, ann, var) ==
    IF ann.kind = "none" THEN name
    ELSE IF ann.kind = "lit" THEN name \o <<"[">> \o Dec(ann.k) \o <<"]">>
    ELSE name \o S_LL \o var \o S_RR

\* the config entry an annotation needs
ConfigOf(ann, var) == IF ann.kind = "var" THEN <<Entry(var, ann.k)>> ELSE <<>>

Document(config, shared, tables) ==
    [config |-> config, shared |-> shared, tables |-> tables]

\* two shared columns of explicit lengths; a table that references a, a, b
TwoSharedDocs ==
    {Document(ConfigOf(annT, V_NT),
              <<Entry(Key(N_a, LitAnn(ka), V_NA), UniqueInt),
                Entry(Key(N_b, LitAnn(kb), V_NA), UniqueInt)>>,
              <<Entry(Key(N_t, annT, V_NT),
                      <<Entry(<<"x">>, Ref(N_a)), Entry(<<"z">>, Ref(N_a)),
                        Entry(<<"y">>, Ref(N_b)), Entry(<<"w">>, Lit)>>)>>)
        : <<ka, kb, annT>> \in Counts \X Counts \X Anns}

\* one shared column and one table, each with any annotation
OneSharedDocs ==
    {Document(ConfigOf(annA, V_NA) \o ConfigOf(annT, V_NT),
              <<Entry(Key(N_a, annA, V_NA), UniqueInt)>>,
              <<Entry(Key(N_t, annT, V_NT),
                      <<Entry(<<"x">>, Ref(N_a)), Entry(<<"v">>, UniqueStr)>>)>>)
        : <<annA, annT>> \in Anns \X Anns}

\* a table whose first shared reference names no shared column
UndefinedRefDocs ==
    {Document(ConfigOf(annT, V_NT),
              <<Entry(Key(N_a, LitAnn(ka), V_NA), UniqueInt)>>,
              <<Entry(Key(N_t, annT, V_NT),
                      <<Entry(<<"x">>, Ref(N_c)), Entry(<<"y">>, Ref(N_a))>>)>>)
        : <<ka, annT>> \in Counts \X Anns}
    \cup
    {Document(ConfigOf(annT, V_NT), <<>>,
              <<Entry(Key(N_t, annT, V_NT), <<Entry(<<"x">>, Ref(N_c))>>)>>)
        : annT \in Anns}

\* a table without shared references
NoRefDocs ==
    {Document(ConfigOf(annT, V_NT), <<>>,
              <<Entry(Key(N_t, annT, V_NT),
                      <<Entry(<<"w">>, Lit), Entry(<<"v">>, UniqueInt)>>)>>)
        : annT \in Anns}

\* no table, or two tables (of the same or of different names)
ManyTableDocs ==
    {Document(<<>>, <<Entry(Key(N_a, LitAnn(1), V_NA), UniqueInt)>>, <<>>)}
    \cup
    {Document(<<>>,
              <<Entry(Key(N_a, LitAnn(1), V_NA), UniqueInt)>>,
              <<Entry(Key(N_t, LitAnn(k1), V_NT), <<Entry(<<"x">>, Ref(N_a))>>),
                Entry(Key(n2, LitAnn(k2), V_NT),
                      <<Entry(<<"r">>, Bool), Entry(<<"q">>, Ref(N_a))>>)>>)
        : <<k1, k2, n2>> \in {q \in Counts \X Counts \X {N_t, N_u} :
                                 q[3] = N_u \/ q[1] # q[2]}}

Documents ==
    TwoSharedDocs \cup OneSharedDocs \cup UndefinedRefDocs \cup NoRefDocs
        \cup ManyTableDocs

(* Documents of one table with one column v, for the value-specs *)

Chars_NOPOOL == <<"N", "O", "P", "O", "O", "L">>
Chars_THEMES == <<"T", "H", "E", "M", "E", "S">>
Chars_THEME == <<"T", "H", "E", "M", "E">>
Chars_JOBS == <<"J", "O", "B", "S">>

Unique(type) == PyStr(S_UNIQUE \o type \o <<"]">>)
Choose(items) == PyStr(S_CHOOSE \o <<"[">> \o items \o S_RR)
ChooseCount(items, count) ==
    PyStr(S_CHOOSE \o <<"[">> \o items \o S_RR \o S_LL \o count \o S_RR)
PoolCount(name, count) == PyStr(name \o <<"[">> \o count \o <<"]">>)

\* shared column a of one value; table t[k] with the column v: value_spec
ValueDoc(value_spec, k) ==
    Document(<<>>,
             <<Entry(Key(N_a, LitAnn(1), V_NA), UniqueInt)>>,
             <<Entry(Key(N_t, LitAnn(k), V_NT), <<Entry(<<"v">>, value_spec)>>)>>)

UniqueTypes == {S_int, S_str, <<"i", "d">>}

\* the items "a, b,c" and the ranges "1-3" and "10-11"
ItemSpecs ==
    {<<"a", ",", " ", "b", ",", "c">>, <<"1", "-", "3">>, <<"1", "0", "-", "1", "1">>}
CountSpecs == {<<"0">>, <<"1">>, <<"2">>, <<"5">>, <<"n">>}
ChooseSpecs ==
    {Choose(items) : items \in ItemSpecs}
        \cup {ChooseCount(items, count) : <<items, count>> \in ItemSpecs \X CountSpecs}

SingularPools == {name \in {CONSTANT_MAP[i].key : i \in 1..Len(CONSTANT_MAP)} :
                    ~EndsWith(name, <<"S">>)}
SmallPools == {Chars_THEMES, Chars_JOBS}
PoolSpecs ==
    {PyStr(name) : name \in SingularPools \cup SmallPools}
        \cup {PoolCount(name, count) :
                <<name, count>> \in (SmallPools \cup {Chars_THEME}) \X CountSpecs}

\* POOL[k] and POOL[n] for names that are no pool
UnknownPoolSpecs ==
    {PoolCount(name, count) :
        <<name, count>> \in {Chars_NOPOOL, <<"T", "H", "E", "M">>} \X {<<"2">>, <<"n">>}}

\* strings that are no well-formed instance of a rule
OtherSpecs ==
    {Lit, PyStr(<<>>), PyStr(S_UNIQUE), PyStr(S_CHOOSE \o <<"x">>),
     PyStr(<<"U", "N", "I", "Q", "U", "E">>), PyStr(<<"C", "H", "O", "O", "S", "E">>),
     PyStr(S_NAME \o <<" ">>), PyStr(<<"S", "t", "r">>),
     PyStr(Chars_THEMES \o <<"[">>), PyStr(S_LL \o N_a), PyStr(Chars_NOPOOL)}

\* strings that begin with [[ and end with ]] and have brackets in between
EmbeddedRefSpecs ==
    {PyStr(S_LL \o N_a \o S_RR \o <<" ", "a", "n", "d", " ">> \o S_LL \o N_b \o S_RR),
     PyStr(S_LL \o N_a \o S_RR \o S_LL \o N_a \o S_RR)}

\* value-specs that are no str: the int 30 and the bool True
NonStrSpecs == {PyInt(30), PyBool(TRUE)}

ValueDocuments ==
    {ValueDoc(Unique(type), k) : <<type, k>> \in UniqueTypes \X (0..MaxUniqueRows)}
    \cup {ValueDoc(value_spec, k) :
            <<value_spec, k>> \in (ChooseSpecs \cup PoolSpecs) \X (0..MaxDraws)}
    \cup {ValueDoc(value_spec, k) :
            <<value_spec, k>> \in (UnknownPoolSpecs \cup OtherSpecs \cup EmbeddedRefSpecs
                                      \cup NonStrSpecs) \X Counts}

(* Documents of two tables, the second of which may fail *)

FailingLastDocs ==
    {Document(<<>>,
              <<Entry(Key(N_a, LitAnn(ka), V_NA), UniqueInt)>>,
              <<Entry(Key(N_t, LitAnn(k1), V_NT), <<Entry(<<"x">>, Ref(N_a))>>),
                Entry(Key(N_u, LitAnn(k2), V_NT), <<Entry(<<"y">>, Ref(N_c))>>)>>)
        : <<ka, k1, k2>> \in Counts \X Counts \X Counts}

(* Documents of one or two tables that all have the column x *)

PartitionedDocs ==
    {Document(<<>>,
              <<Entry(Key(N_a, LitAnn(1), V_NA), UniqueInt)>>,
              <<Entry(Key(N_t, LitAnn(k1), V_NT), <<Entry(<<"x">>, Ref(N_a))>>)>>)
        : k1 \in Counts}
    \cup
    {Document(<<>>,
              <<Entry(Key(N_a, LitAnn(1), V_NA), UniqueInt)>>,
              <<Entry(Key(N_t, LitAnn(k1), V_NT), <<Entry(<<"x">>, Ref(N_a))>>),
                Entry(Key(N_u, LitAnn(k2), V_NT),
                      <<Entry(<<"x">>, Ref(N_a)), Entry(<<"r">>, Bool)>>)>>)
        : <<k1, k2>> \in Counts \X Counts}

(* Documents whose shared section holds a shared reference, or two entries of *)
(* one name                                                                   *)

\* the shared columns a: UNIQUE[int] and b: [[a]], a declared before b or after
\* it; a table without row count that references b and a
SharedRefDocs ==
    {Document(<<>>,
              IF a_first
              THEN <<Entry(Key(N_a, LitAnn(ka), V_NA), UniqueInt),
                     Entry(Key(N_b, LitAnn(kb), V_NA), Ref(N_a))>>
              ELSE <<Entry(Key(N_b, LitAnn(kb), V_NA), Ref(N_a)),
                     Entry(Key(N_a, LitAnn(ka), V_NA), UniqueInt)>>,
              <<Entry(N_t, <<Entry(<<"x">>, Ref(N_b)), Entry(<<"y">>, Ref(N_a))>>)>>)
        : <<ka, kb, a_first>> \in Counts \X Counts \X BOOLEAN}

\* two shared entries a[k1] and a[k2] that differ in the row count only
SameNameDocs ==
    {Document(<<>>,
              <<Entry(Key(N_a, LitAnn(k1), V_NA), UniqueInt),
                Entry(Key(N_a, LitAnn(k2), V_NA), UniqueStr)>>,
              <<Entry(N_t, <<Entry(<<"x">>, Ref(N_a))>>)>>)
        : <<k1, k2>> \in {q \in Counts \X Counts : q[1] # q[2]}}

SharedDocuments == OneSharedDocs \cup SharedRefDocs \cup SameNameDocs

(* The arguments of create_table besides the document *)

NoArgs == <<>>
S_out == <<"o", "u", "t">>

Args(dest, file_type, partition_cols, pyarrow) ==
    [dest |-> dest, file_type |-> file_type, partition_cols |-> partition_cols,
     pyarrow |-> pyarrow]

\* no destination
ArgsNoDest == {Args(None, S_parquet, None, TRUE)}

\* destination "out", with pyarrow installed or not; partition columns are
\* given for parquet only, the one format that reads them
ArgsDest ==
    {Args(Some(<<S_out>>), ft, None, pa)
        : <<ft, pa>> \in {S_csv, S_json, S_ldjson} \X BOOLEAN}
    \cup {Args(Some(<<S_out>>), S_parquet, pc_, pa)
            : <<pc_, pa>> \in {None, Some(<<<<"x">>>>)} \X BOOLEAN}

-----------------------------------------------------------------------------
(* create_table as a state machine *)

InitOn(documents) ==
    /\ doc \in documents
    /\ pc = "call"
    /\ shared_data = <<>>
    /\ si = 1
    /\ all_tables = <<>>
    /\ ti = 1
    /\ row_count = None
    /\ table_data = <<>>
    /\ args = NoArgs
    /\ fs = {}
    /\ result = None
    /\ err = ""
    /\ run = 1
    /\ prev = None

Init == InitOn(Documents)

\* lines 92-103: the sections of the document are read, _generate_shared starts
Call ==
    /\ pc = "call"
    /\ pc' = "shared"
    /\ shared_data' = <<>>
    /\ si' = 1
    /\ UNCHANGED <<doc, all_tables, ti, row_count, table_data, args, fs, result,
                   err, run, prev>>

\* lines 169-176: one shared column is parsed, generated and stored
SharedColumn ==
    /\ pc = "shared"
    /\ si <= Len(doc.shared)
    /\ LET parsed == ParseColumnSpec(doc.shared[si].key, doc.config)
       IN  \E n \in RowCounts(parsed.row_count) :
             \E o \in ColumnOutcomes(doc.shared[si].val, n, shared_data) :
               IF o.err # ""
               THEN /\ pc' = "error"
                    /\ err' = o.err
                    /\ UNCHANGED <<shared_data, si>>
               ELSE /\ shared_data' = DictSet(shared_data, parsed.name, o.val)
                    /\ si' = si + 1
                    /\ UNCHANGED <<pc, err>>
    /\ UNCHANGED <<doc, all_tables, ti, row_count, table_data, args, fs, result,
                   run, prev>>

\* lines 178, 103-107: _generate_shared returns, the loop over the tables starts
SharedDone ==
    /\ pc = "shared"
    /\ si > Len(doc.shared)
    /\ pc' = "table"
    /\ all_tables' = <<>>
    /\ ti' = 1
    /\ UNCHANGED <<doc, shared_data, si, row_count, table_data, args, fs, result,
                   err, run, prev>>

\* lines 198-215: the row count of the next table is resolved
TableStart ==
    /\ pc = "table"
    /\ ti <= Len(doc.tables)
    /\ \E n \in RowCounts(ResolveRowCount(doc.tables[ti].key, doc.tables[ti].val,
                                          shared_data, doc.config)) :
         row_count' = Some(n)
    /\ table_data' = <<>>
    /\ pc' = "row"
    /\ UNCHANGED <<doc, shared_data, si, all_tables, ti, args, fs, result, err,
                   run, prev>>

\* a mutant: generating a row takes the first value off every shared column
TableRowConsumesShared ==
    /\ pc = "row"
    /\ Len(table_data) < row_count[1]
    /\ LET columns == doc.tables[ti].val
       IN  \E o \in RowOutcomes(columns, Len(columns), Len(table_data), shared_data) :
             IF o.err # ""
             THEN /\ pc' = "error"
                  /\ err' = o.err
                  /\ UNCHANGED table_data
             ELSE /\ table_data' = Append(table_data, o.val)
                  /\ UNCHANGED <<pc, err>>
    /\ shared_data' = [i \in 1..Len(shared_data) |->
                         Entry(shared_data[i].key,
                               IF Len(shared_data[i].val) = 0 THEN <<>>
                               ELSE Tail(shared_data[i].val))]
    /\ UNCHANGED <<doc, si, all_tables, ti, row_count, args, fs, result, run, prev>>

\* lines 216-221: one row is generated and appended
TableRow ==
    /\ pc = "row"
    /\ Len(table_data) < row_count[1]
    /\ LET columns == doc.tables[ti].val
       IN  \E o \in RowOutcomes(columns, Len(columns), Len(table_data), shared_data) :
             IF o.err # ""
             THEN /\ pc' = "error"
                  /\ err' = o.err
                  /\ UNCHANGED table_data
             ELSE /\ table_data' = Append(table_data, o.val)
                  /\ UNCHANGED <<pc, err>>
    /\ UNCHANGED <<doc, shared_data, si, all_tables, ti, row_count, args, fs,
                   result, run, prev>>

\* a mutant: every table is written as soon as it is generated
TableDoneStreaming ==
    /\ pc = "row"
    /\ Len(table_data) = row_count[1]
    /\ all_tables' = DictSet(all_tables, doc.tables[ti].key, table_data)
    /\ ti' = ti + 1
    /\ pc' = "table"
    /\ fs' = IF args # NoArgs /\ args.dest # None
             THEN WriteSingleTable(fs, table_data,
                      Append(args.dest[1],
                             TableFileName(doc.tables[ti].key, args.file_type)),
                      args).fs
             ELSE fs
    /\ UNCHANGED <<doc, shared_data, si, row_count, table_data, args, result, err,
                   run, prev>>

\* lines 223, 108-109: _generate_table returns, the table is stored under the
\* key of tables_def
TableDone ==
    /\ pc = "row"
    /\ Len(table_data) = row_count[1]
    /\ all_tables' = DictSet(all_tables, doc.tables[ti].key, table_data)
    /\ ti' = ti + 1
    /\ pc' = "table"
    /\ UNCHANGED <<doc, shared_data, si, row_count, table_data, args, fs, result,
                   err, run, prev>>

\* lines 112-113: after the last table, _write_tables if dest is given.  The
\* arguments are drawn here, where create_table first reads them.
WriteTables(choices) ==
    /\ pc = "table"
    /\ ti > Len(doc.tables)
    /\ \E a \in choices :
         /\ args' = a
         /\ IF a.dest = None
            THEN /\ pc' = "return"
                 /\ UNCHANGED <<fs, err>>
            ELSE LET w == WriteTablesTo(fs, all_tables, a)
                 IN  /\ fs' = w.fs
                     /\ err' = w.err
                     /\ pc' = IF w.err # "" THEN "error" ELSE "return"
    /\ UNCHANGED <<doc, shared_data, si, all_tables, ti, row_count, table_data,
                   result, run, prev>>

\* lines 116-135 with to_dataframe false
Return ==
    /\ pc = "return"
    /\ result' = Some(ReturnValue(all_tables))
    /\ pc' = "done"
    /\ UNCHANGED <<doc, shared_data, si, all_tables, ti, row_count, table_data,
                   args, fs, err, run, prev>>

\* what two results are compared by: the tables, and the keys of every row
Shape(r) ==
    IF r[1] = "list" THEN <<"list", RowKeys(r[2])>>
    ELSE <<"dict", [i \in 1..Len(r[2]) |-> Entry(r[2][i].key, RowKeys(r[2][i].val))]>>

\* the caller calls create_table on the same document once more
CallAgain ==
    /\ pc \in {"done", "error"}
    /\ run = 1
    /\ run' = 2
    /\ prev' = IF pc = "done" THEN Some(Shape(result[1])) ELSE Some(<<"raised", err>>)
    /\ pc' = "call"
    /\ shared_data' = <<>>
    /\ si' = 1
    /\ all_tables' = <<>>
    /\ ti' = 1
    /\ row_count' = None
    /\ table_data' = <<>>
    /\ args' = NoArgs
    /\ result' = None
    /\ err' = ""
    /\ UNCHANGED <<doc, fs>>

Next ==
    \/ Call
    \/ SharedColumn
    \/ SharedDone
    \/ TableStart
    \/ TableRow
    \/ TableDone
    \/ WriteTables(ArgsNoDest \cup ArgsDest)
    \/ Return

Spec == Init /\ [][Next]_vars

\* two calls on the same document, without a destination
RepeatDocuments ==
    TwoSharedDocs \cup UndefinedRefDocs \cup NoRefDocs \cup ManyTableDocs

InitRepeat == InitOn(RepeatDocuments)

NextRepeat ==
    \/ Call
    \/ SharedColumn
    \/ SharedDone
    \/ TableStart
    \/ TableRow
    \/ TableDone
    \/ WriteTables(ArgsNoDest)
    \/ Return
    \/ CallAgain

SpecRepeat == InitRepeat /\ [][NextRepeat]_vars

\* one call on a document of one table with one value-spec
InitValues == InitOn(ValueDocuments)

SpecValues == InitValues /\ [][Next]_vars

\* one call whose arguments are fixed when create_table is entered
DestDocuments ==
    FailingLastDocs \cup ManyTableDocs \cup NoRefDocs \cup PartitionedDocs

InitDest ==
    /\ doc \in DestDocuments
    /\ pc = "call"
    /\ shared_data = <<>>
    /\ si = 1
    /\ all_tables = <<>>
    /\ ti = 1
    /\ row_count = None
    /\ table_data = <<>>
    /\ args \in ArgsNoDest \cup ArgsDest
    /\ fs = {}
    /\ result = None
    /\ err = ""
    /\ run = 1
    /\ prev = None

NextDest ==
    \/ Call
    \/ SharedColumn
    \/ SharedDone
    \/ TableStart
    \/ TableRow
    \/ TableDone
    \/ WriteTables({args})
    \/ Return

SpecDest == InitDest /\ [][NextDest]_vars

\* one call on a document whose shared section is of any of the kinds above
InitShared == InitOn(SharedDocuments)

SpecShared == InitShared /\ [][Next]_vars

-----------------------------------------------------------------------------
(* What the claims are stated with *)

Names == {N_a, N_b, N_c, N_t, N_u}

\* the explicit row counts a spec key carries: name[k], or name[[VAR]] with VAR
\* a key of config
ExplicitCounts(key, config) ==
    {k \in Counts : \E n \in Names : key = n \o <<"[">> \o Dec(k) \o <<"]">>}
    \cup {config[i].val :
            i \in {j \in 1..Len(config) :
                     \E n \in Names : key = n \o S_LL \o config[j].key \o S_RR}}

\* the name a spec key carries in front of its annotation
NameOf(key) == CHOOSE n \in Names : StartsWith(key, n)

\* the names of the shared columns the shared section defines
DefinedShared == {NameOf(doc.shared[i].key) : i \in 1..Len(doc.shared)}

\* the columns of a table that are shared references, and the first of them
RefCols(columns) == {j \in 1..Len(columns) : IsSharedRef(columns[j].val)}
FirstRef(columns) == CHOOSE j \in RefCols(columns) : \A k \in RefCols(columns) : j <= k
RefName(columns, j) == SharedColName(columns[j].val)

\* the tables generated so far: the finished ones and the rows of the current one
ColumnsOf(key) == DictGet(doc.tables, key)
Generated ==
    all_tables \o (IF pc = "row" THEN <<Entry(doc.tables[ti].key, table_data)>>
                   ELSE <<>>)

\* an exception left _generate_table
TableFailed == pc = "error" /\ si > Len(doc.shared) /\ args = NoArgs

(* C1: a table whose key carries no explicit row count has as many rows as    *)
(* the shared column named by its first shared reference (in declaration      *)
(* order) has values.                                                         *)
C1_RowsFromFirstSharedRef ==
    \A i \in 1..Len(all_tables) :
        LET key == all_tables[i].key
            columns == ColumnsOf(key)
        IN  (/\ ExplicitCounts(key, doc.config) = {}
             /\ RefCols(columns) # {}
             /\ DictHas(shared_data, RefName(columns, FirstRef(columns))))
            => Len(all_tables[i].val)
                 = Len(DictGet(shared_data, RefName(columns, FirstRef(columns))))

\* a finished table without explicit count whose first reference is to a shared
\* column of another length than a later reference's, and has that many rows
C1_Witness ==
    /\ pc = "done"
    /\ \E i \in 1..Len(all_tables) :
         LET key == all_tables[i].key
             columns == ColumnsOf(key)
         IN  /\ ExplicitCounts(key, doc.config) = {}
             /\ RefCols(columns) # {}
             /\ DictHas(shared_data, RefName(columns, FirstRef(columns)))
             /\ Len(DictGet(shared_data, RefName(columns, FirstRef(columns)))) = 2
             /\ \E j \in RefCols(columns) :
                  /\ DictHas(shared_data, RefName(columns, j))
                  /\ Len(DictGet(shared_data, RefName(columns, j))) = 3
             /\ Len(all_tables[i].val) = 2

(* C2: two columns of a table that reference the same shared column hold the  *)
(* same value in every row of the table, whatever its row count.              *)
C2_SameRefSameValue ==
    \A i \in 1..Len(Generated) :
        LET columns == ColumnsOf(Generated[i].key)
            rows == Generated[i].val
        IN  \A j, k \in RefCols(columns) :
                RefName(columns, j) = RefName(columns, k)
                => \A r \in 1..Len(rows) :
                       DictGet(rows[r], columns[j].key) = DictGet(rows[r], columns[k].key)

(* C3: a column that references a defined shared column s holds s[i] in every *)
(* row i below the length of s; a shared column UNIQUE[int] holds 1000, 1001, *)
(* ... so such a column does too; tables that reference s agree below len(s). *)
C3_RefReadsSharedAtRowIndex ==
    /\ \A i \in 1..Len(Generated) :
         LET columns == ColumnsOf(Generated[i].key)
             rows == Generated[i].val
         IN  \A j \in RefCols(columns) :
                 DictHas(shared_data, RefName(columns, j))
                 => LET s == DictGet(shared_data, RefName(columns, j))
                    IN  \A r \in 1..Len(rows) :
                            r <= Len(s)
                            => /\ DictGet(rows[r], columns[j].key) = s[r]
                               /\ (\A e \in 1..Len(doc.shared) :
                                     doc.shared[e].val = UniqueInt)
                                  => DictGet(rows[r], columns[j].key)
                                       = PyInt(UniqueOffset + r - 1)
    /\ \A i1, i2 \in 1..Len(Generated) :
         LET c1 == ColumnsOf(Generated[i1].key)
             c2 == ColumnsOf(Generated[i2].key)
         IN  \A j1 \in RefCols(c1), j2 \in RefCols(c2) :
                 (/\ RefName(c1, j1) = RefName(c2, j2)
                  /\ DictHas(shared_data, RefName(c1, j1)))
                 => \A r \in 1..Len(DictGet(shared_data, RefName(c1, j1))) :
                        (r <= Len(Generated[i1].val) /\ r <= Len(Generated[i2].val))
                        => DictGet(Generated[i1].val[r], c1[j1].key)
                             = DictGet(Generated[i2].val[r], c2[j2].key)

\* a finished table without explicit count that reproduces a shared column of
\* three values, 1000, 1001, 1002, in row order
C3_Witness ==
    /\ pc = "done"
    /\ Len(all_tables) = 1
    /\ ExplicitCounts(all_tables[1].key, doc.config) = {}
    /\ DictHas(shared_data, N_a)
    /\ Len(DictGet(shared_data, N_a)) = 3
    /\ [r \in 1..Len(all_tables[1].val) |-> DictGet(all_tables[1].val[r], <<"x">>)]
         = <<PyInt(1000), PyInt(1001), PyInt(1002)>>

(* C4: a document with a table column that references a shared column the     *)
(* shared section does not define makes create_table fail, also when the      *)
(* table's row count is 0.                                                    *)
C4_UndefinedRefFails ==
    pc = "done"
    => \A i \in 1..Len(doc.tables) :
           \A j \in RefCols(doc.tables[i].val) :
               RefName(doc.tables[i].val, j) \in DefinedShared

(* C5: when a table has more rows than a defined shared column it references, *)
(* resolution does not fail and every cell past the end of the shared column  *)
(* is an element of it, also for a shared column of length 0.                 *)
C5_PastEndNeverFails ==
    /\ TableFailed
       => \E j \in RefCols(doc.tables[ti].val) :
              RefName(doc.tables[ti].val, j) \notin DefinedShared
    /\ \A i \in 1..Len(Generated) :
         LET columns == ColumnsOf(Generated[i].key)
             rows == Generated[i].val
         IN  \A j \in RefCols(columns) :
                 DictHas(shared_data, RefName(columns, j))
                 => LET s == DictGet(shared_data, RefName(columns, j))
                    IN  \A r \in 1..Len(rows) :
                            r > Len(s)
                            => \E q \in 1..Len(s) :
                                   DictGet(rows[r], columns[j].key) = s[q]

\* the rows generated so far have the declared keys and are no more than the
\* resolved row count; a finished table has exactly that many rows
C6_State ==
    /\ \A i \in 1..Len(Generated) :
         \A r \in 1..Len(Generated[i].val) :
             DictKeys(Generated[i].val[r]) = DictKeys(ColumnsOf(Generated[i].key))
    /\ pc = "row" => Len(table_data) <= row_count[1]
    /\ (pc \in {"table", "return", "done"} /\ Len(all_tables) >= 1)
       => Len(all_tables[Len(all_tables)].val) = row_count[1]

(* C6: all rows of a generated table have the same keys, the declared column  *)
(* names in declaration order; the table has as many rows as the row count    *)
(* resolved before its first cell was generated, which does not change while  *)
(* its rows are generated.                                                    *)
C6_RowsHaveDeclaredColumns ==
    /\ []C6_State
    /\ [][(pc = "row" /\ pc' \in {"row", "table"}) => row_count' = row_count]_vars

\* a returned table of three rows and four columns
C6_Witness ==
    /\ pc = "done"
    /\ Len(all_tables) = 1
    /\ Len(all_tables[1].val) = 3
    /\ row_count = Some(3)
    /\ \A r \in 1..3 : Len(all_tables[1].val[r]) = 4

(* C7: a table whose key carries an explicit row count k has exactly k rows,  *)
(* whatever the lengths of the shared columns it references; the inference    *)
(* from shared references and the random default are not used for it.         *)
C7_ExplicitCountIsRowCount ==
    /\ \A i \in 1..Len(all_tables) :
         \A k \in ExplicitCounts(all_tables[i].key, doc.config) :
             Len(all_tables[i].val) = k
    /\ pc = "row"
       => \A k \in ExplicitCounts(doc.tables[ti].key, doc.config) :
              row_count = Some(k)

\* a finished table of three rows, by a config variable, whose first shared
\* reference is to a shared column of one value
C7_Witness ==
    /\ pc = "done"
    /\ Len(all_tables) = 1
    /\ all_tables[1].key = N_t \o S_LL \o V_NT \o S_RR
    /\ ExplicitCounts(all_tables[1].key, doc.config) = {3}
    /\ Len(all_tables[1].val) = 3
    /\ RefCols(ColumnsOf(all_tables[1].key)) # {}
    /\ DictHas(shared_data, N_a)
    /\ Len(DictGet(shared_data, N_a)) = 1

\* every shared column and every table of the document has an explicit count
AllExplicit ==
    /\ \A i \in 1..Len(doc.shared) : ExplicitCounts(doc.shared[i].key, doc.config) # {}
    /\ \A i \in 1..Len(doc.tables) : ExplicitCounts(doc.tables[i].key, doc.config) # {}

(* C8: two calls of create_table on a document in which every shared column   *)
(* and every table has an explicit row count return the same tables, with the *)
(* same number of rows and the same keys in every row.                        *)
C8_SameShapeOnRepeat ==
    (run = 2 /\ pc = "done" /\ AllExplicit /\ prev[1][1] # "raised")
    => Shape(result[1]) = prev[1]

\* a second call that returned two tables, one of them of three rows with a
\* random column
C8_Witness ==
    /\ run = 2
    /\ pc = "done"
    /\ AllExplicit
    /\ prev[1][1] = "dict"
    /\ Len(all_tables) = 2
    /\ Len(all_tables[2].val) = 3
    /\ DictGet(all_tables[2].val[1], <<"r">>) # DictGet(all_tables[2].val[2], <<"r">>)

(* C9: create_table returns the rows of the table when the document defines   *)
(* exactly one table, and otherwise a mapping with one entry per table (an    *)
(* empty mapping for no table).                                               *)
C9_ReturnsRowsOrMapping ==
    pc = "done"
    => IF Len(doc.tables) = 1
       THEN result = Some(<<"list", all_tables[1].val>>)
       ELSE /\ result[1][1] = "dict"
            /\ Len(result[1][2]) = Len(doc.tables)
            /\ \A i \in 1..Len(doc.tables) :
                   /\ result[1][2][i].key = doc.tables[i].key
                   /\ result[1][2][i].val = all_tables[i].val

\* a document of two tables of the same name returned as a mapping of two
C9_Witness ==
    /\ pc = "done"
    /\ Len(doc.tables) = 2
    /\ NameOf(doc.tables[1].key) = NameOf(doc.tables[2].key)
    /\ result[1][1] = "dict"
    /\ Len(result[1][2]) = 2
    /\ Len(result[1][2][2].val) = 2

(* C10: for a document of several tables the keys of the returned mapping are *)
(* the table names, the spec keys without their row-count annotation, and the *)
(* file of a table is named <table name>.<extension>.                         *)
C10_TablesKeyedByName ==
    /\ (pc = "done" /\ Len(doc.tables) > 1)
       => \A i \in 1..Len(result[1][2]) : result[1][2][i].key \in Names
    /\ \A f \in fs :
         (f.kind = "file" /\ Len(f.path) = 2)
         => \E n \in Names : f.path[2] = TableFileName(n, f.format)

-----------------------------------------------------------------------------
(* What the claims about writing and about value-specs are stated with *)

\* an exception left _generate_shared or _generate_table
GenerationFailed ==
    pc = "error" /\ (si <= Len(doc.shared) \/ ti <= Len(doc.tables))

\* the entries of the file system that hold rows, and those directly in a directory
Outputs == {f \in fs : f.kind \in {"file", "dataset"}}
OutputsIn(dir) == {f \in Outputs : Len(f.path) = Len(dir) + 1 /\ Parent(f.path) = dir}

(* C11: with a destination, a document of exactly one table has its output at  *)
(* the destination path itself, and a document of several tables gives a       *)
(* directory at the destination that holds exactly one output file per table;  *)
(* without a destination no file and no directory is created.                  *)
C11_OutputAtDestination ==
    pc \in {"return", "done"}
    => IF args.dest = None THEN fs = {}
       ELSE IF Len(doc.tables) = 1
       THEN \E f \in Outputs : f.path = args.dest[1]
       ELSE /\ \E f \in fs : f.path = args.dest[1] /\ f.kind = "dir"
            /\ Cardinality(OutputsIn(args.dest[1])) = Len(doc.tables)
            /\ \A f \in OutputsIn(args.dest[1]) : f.kind = "file"

\* the write step has not started before the last table is stored
C12_State == GenerationFailed => fs = {}

(* C12: the write step starts only after every table of the document has been  *)
(* generated: the file system changes only in the step that follows the last   *)
(* table, and a run in which the generation of a table fails has created no    *)
(* file and no directory, also with a destination and with earlier tables      *)
(* generated.                                                                  *)
C12_WriteAfterAllTables ==
    /\ []C12_State
    /\ [][fs' # fs => (/\ pc = "table"
                       /\ ti > Len(doc.tables)
                       /\ Len(all_tables) = Len(doc.tables))]_vars

\* the second table failed on an undefined shared reference after the first was
\* generated with rows, a destination being given
C12_Witness ==
    /\ pc = "error"
    /\ err = "ValueError"
    /\ ti = 2
    /\ Len(all_tables) = 1
    /\ Len(all_tables[1].val) >= 1
    /\ args.dest # None
    /\ fs = {}

\* the value-spec of column v of the only table, and the cells of that column
\* generated so far, in row order
TheSpec == doc.tables[1].val[1].val
Cells ==
    LET rows == IF Len(all_tables) >= 1 THEN all_tables[1].val ELSE table_data
    IN  [r \in 1..Len(rows) |-> DictGet(rows[r], <<"v">>)]

\* row indexes beyond the rows of a generated table
LargeRowIndexes == {9999, 10000, 12345}

\* the decimal digits that follow a prefix of a str value
DigitsAfter(v, prefix) == SubSeq(v[2], Len(prefix) + 1, Len(v[2]))

(* C13: UNIQUE[type] is a function of the row index only and injective in it:  *)
(* UNIQUE[int] at row i is i + 1000, UNIQUE[str] is 'unique_' followed by i     *)
(* zero-padded to at least 4 digits, another type t gives '<t>_<i>'; no two     *)
(* rows of a column hold the same value, and generation does not fail.          *)
C13_UniqueByRowIndex ==
    \A type \in UniqueTypes :
        TheSpec = Unique(type)
        => /\ ~GenerationFailed
           /\ \A r \in 1..Len(Cells) :
                IF type = S_int THEN Cells[r] = <<"int", r - 1 + 1000>>
                ELSE LET prefix == IF type = S_str
                                   THEN <<"u", "n", "i", "q", "u", "e", "_">>
                                   ELSE type \o <<"_">>
                         digits == DigitsAfter(Cells[r], prefix)
                     IN  /\ Cells[r][1] = "str"
                         /\ StartsWith(Cells[r][2], prefix)
                         /\ IsDigitStr(digits)
                         /\ ParseInt(digits) = r - 1
                         /\ IF type = S_str THEN Len(digits) = 4
                            ELSE digits = Dec(r - 1)
           /\ \A r1, r2 \in 1..Len(Cells) : r1 # r2 => Cells[r1] # Cells[r2]
           /\ pc = "done"
              => \A i \in LargeRowIndexes :
                    LET v == GenerateUniqueValue(TheSpec[2], i)
                    IN  IF type = S_int THEN v = <<"int", i + 1000>>
                        ELSE IF type = S_str
                        THEN v = <<"str", <<"u", "n", "i", "q", "u", "e", "_">> \o Dec(i)>>
                        ELSE v = <<"str", type \o <<"_">> \o Dec(i)>>

\* a column UNIQUE[int] of the rows 0..9
C13_Witness ==
    /\ pc = "done"
    /\ TheSpec = Unique(S_int)
    /\ Cells = <<PyInt(1000), PyInt(1001), PyInt(1002), PyInt(1003), PyInt(1004),
                 PyInt(1005), PyInt(1006), PyInt(1007), PyInt(1008), PyInt(1009)>>

\* the item sources of the CHOOSE value-specs with the items they denote: the
\* ranges 1-3 and 10-11, and the list a, b,c
ItemSources ==
    {[items |-> <<"1", "-", "3">>,
      values |-> <<<<"int", 1>>, <<"int", 2>>, <<"int", 3>>>>],
     [items |-> <<"1", "0", "-", "1", "1">>,
      values |-> <<<<"int", 10>>, <<"int", 11>>>>],
     [items |-> <<"a", ",", " ", "b", ",", "c">>,
      values |-> <<<<"str", <<"a">>>>, <<"str", <<"b">>>>, <<"str", <<"c">>>>>>]}

\* l holds items of the sequence values, no position of values taken twice
TakenFrom(l, values) ==
    \E f \in [1..Len(l) -> 1..Len(values)] :
        /\ \A i \in 1..Len(l) : l[i] = values[f[i]]
        /\ \A i, j \in 1..Len(l) : f[i] = f[j] => i = j

(* C14: CHOOSE[[a-b]] with a <= b and no count suffix, or the count suffix 1,  *)
(* always gives a single integer v with a <= v <= b, never a list;             *)
(* CHOOSE[[x,y,...]] with no count suffix or the count 1 gives a single one of *)
(* the listed items, never a list; neither fails.                              *)
C14_ChooseSingle ==
    \A src \in ItemSources :
        TheSpec \in {Choose(src.items), ChooseCount(src.items, <<"1">>)}
        => /\ ~GenerationFailed
           /\ \A r \in 1..Len(Cells) :
                \E i \in 1..Len(src.values) : Cells[r] = src.values[i]

\* two cells of CHOOSE[[1-3]][[1]]: the ends of the range
C14_Witness ==
    /\ pc = "done"
    /\ TheSpec = ChooseCount(<<"1", "-", "3">>, <<"1">>)
    /\ Cells = <<PyInt(1), PyInt(3)>>

(* C15: CHOOSE[[items]][[k]] with an explicit integer k other than 1 gives a   *)
(* list of exactly min(k, itemCount) items, each taken from the item source    *)
(* and no item position taken twice; with the count n the list has between 1   *)
(* and itemCount items, again without repetition; neither fails.               *)
C15_ChooseList ==
    \A src \in ItemSources :
        /\ \A k \in {0, 2, 5} :
             TheSpec = ChooseCount(src.items, Dec(k))
             => /\ ~GenerationFailed
                /\ \A r \in 1..Len(Cells) :
                     /\ Cells[r][1] = "list"
                     /\ Len(Cells[r][2]) = Min(k, Len(src.values))
                     /\ TakenFrom(Cells[r][2], src.values)
        /\ TheSpec = ChooseCount(src.items, <<"n">>)
           => /\ ~GenerationFailed
              /\ \A r \in 1..Len(Cells) :
                   /\ Cells[r][1] = "list"
                   /\ Len(Cells[r][2]) \in 1..Len(src.values)
                   /\ TakenFrom(Cells[r][2], src.values)

\* two cells of CHOOSE[[a, b,c]][[2]]
C15_Witness ==
    /\ pc = "done"
    /\ TheSpec = ChooseCount(<<"a", ",", " ", "b", ",", "c">>, <<"2">>)
    /\ Cells = <<PyList(<<PyStr(<<"b">>), PyStr(<<"a">>)>>),
                 PyList(<<PyStr(<<"a">>), PyStr(<<"c">>)>>)>>

\* the singular of a plural pool name: ...IES -> ...Y, otherwise without the S
SingularOf(plural) ==
    IF EndsWith(plural, <<"I", "E", "S">>)
    THEN SubSeq(plural, 1, Len(plural) - 3) \o <<"Y">>
    ELSE SubSeq(plural, 1, Len(plural) - 1)

\* the pools by their plural names
PluralPools == {e \in {CONSTANT_MAP[i] : i \in 1..Len(CONSTANT_MAP)} : EndsWith(e.key, <<"S">>)}

(* C16: a value-spec that is a pool name ending in S gives a list of between 1 *)
(* and poolSize elements of that pool, none repeated; a singular pool name     *)
(* gives exactly one element of the pool, not a list; every singular name maps *)
(* to the same pool as its plural; neither fails.                              *)
C16_PoolName ==
    \A e \in PluralPools :
        /\ DictHas(CONSTANT_MAP, SingularOf(e.key))
        /\ DictGet(CONSTANT_MAP, SingularOf(e.key)) = e.val
        /\ TheSpec = <<"str", e.key>>
           => /\ ~GenerationFailed
              /\ \A r \in 1..Len(Cells) :
                   /\ Cells[r][1] = "list"
                   /\ Len(Cells[r][2]) \in 1..Len(e.val)
                   /\ TakenFrom(Cells[r][2], PyStrs(e.val))
        /\ TheSpec = <<"str", SingularOf(e.key)>>
           => /\ ~GenerationFailed
              /\ \A r \in 1..Len(Cells) :
                   \E i \in 1..Len(e.val) : Cells[r] = <<"str", e.val[i]>>

\* two cells of THEMES: a list of two of the three themes, and a list of one
C16_Witness ==
    /\ pc = "done"
    /\ TheSpec = PyStr(Chars_THEMES)
    /\ Cells = <<PyList(<<PyStr(<<"d", "a", "r", "k">>), PyStr(<<"l", "i", "g", "h", "t">>)>>),
                 PyList(<<PyStr(<<"a", "u", "t", "o">>)>>)>>

(* C17: POOL[k] for a known pool and an integer k gives a list of exactly      *)
(* min(k, poolSize) elements of the pool, none repeated, and never fails for k *)
(* above poolSize; POOL[n] gives such a list of between 1 and poolSize         *)
(* elements.                                                                   *)
C17_PoolCount ==
    \A name \in {Chars_THEMES, Chars_THEME, Chars_JOBS} :
        LET pool == PyStrs(DictGet(CONSTANT_MAP, name))
        IN  /\ \A k \in {0, 1, 2, 5} :
                 TheSpec = PoolCount(name, Dec(k))
                 => /\ ~GenerationFailed
                    /\ \A r \in 1..Len(Cells) :
                         /\ Cells[r][1] = "list"
                         /\ Len(Cells[r][2]) = Min(k, Len(pool))
                         /\ TakenFrom(Cells[r][2], pool)
            /\ TheSpec = PoolCount(name, <<"n">>)
               => /\ ~GenerationFailed
                  /\ \A r \in 1..Len(Cells) :
                       /\ Cells[r][1] = "list"
                       /\ Len(Cells[r][2]) \in 1..Len(pool)
                       /\ TakenFrom(Cells[r][2], pool)

\* a cell of THEMES[5]: all three themes, and a second cell
C17_Witness ==
    /\ pc = "done"
    /\ TheSpec = PoolCount(Chars_THEMES, <<"5">>)
    /\ Len(Cells) = 2
    /\ Cells[1] = PyList(<<PyStr(<<"a", "u", "t", "o">>), PyStr(<<"l", "i", "g", "h", "t">>),
                           PyStr(<<"d", "a", "r", "k">>)>>)

(* C18: every value-spec string that is no well-formed instance of the rules   *)
(* 1-7 is returned verbatim, the same for every row index, and never raises,   *)
(* also malformed verb strings such as 'UNIQUE[' or 'CHOOSE[x'.                *)
C18_OtherStringsVerbatim ==
    TheSpec \in OtherSpecs
    => /\ ~GenerationFailed
       /\ \A r \in 1..Len(Cells) : Cells[r] = TheSpec

(* C19: a value-spec POOL[n] or POOL[<int>] whose POOL is not the name of a    *)
(* known pool fails when a cell is generated; no cell value is produced for it. *)
C19_UnknownPoolFails ==
    TheSpec \in UnknownPoolSpecs => Len(Cells) = 0

\* a spec key name[[VAR]] whose VAR is no key of the config section
MissingVar(key) ==
    \E n \in Names, var \in {V_NA, V_NT} :
        key = n \o S_LL \o var \o S_RR /\ ~DictHas(doc.config, var)

\* the shared columns generated so far whose key has a missing VAR have between
\* 10 and 50 values, and no shared column with such a key has failed
MissingVarShared ==
    /\ \A i \in 1..Len(shared_data) :
         MissingVar(doc.shared[i].key) => Len(shared_data[i].val) \in 10..50
    /\ (pc = "error" /\ si <= Len(doc.shared)) => ~MissingVar(doc.shared[si].key)

\* the columns of the current table that reference a generated shared column
GeneratedRefs ==
    {j \in RefCols(doc.tables[ti].val) :
        DictHas(shared_data, RefName(doc.tables[ti].val, j))}

(* C20 as stated: for a shared-column key or a table key name[[VAR]] with VAR  *)
(* not in config, generation does not fail and the row count used is the       *)
(* random default, a value in [10,50], for shared columns and for tables       *)
(* alike, also when the table has columns that reference shared columns.       *)
C20_MissingVarGivesDefault ==
    /\ MissingVarShared
    /\ (pc = "row" /\ MissingVar(doc.tables[ti].key)) => row_count[1] \in 10..50

(* C20 amended: a key name[[VAR]] with VAR not in config is resolved like a    *)
(* key without annotation and does not fail on that account: a shared column   *)
(* gets a random count in [10,50]; a table takes the length of the shared      *)
(* column named by its first reference to a generated shared column, and a     *)
(* random count in [10,50] only when it has no such reference; such a table    *)
(* fails only in the resolution of a shared reference.                         *)
C20_MissingVarIsNoAnnotation ==
    /\ MissingVarShared
    /\ (pc = "row" /\ MissingVar(doc.tables[ti].key))
       => IF GeneratedRefs = {} THEN row_count[1] \in 10..50
          ELSE LET j == CHOOSE j \in GeneratedRefs : \A k \in GeneratedRefs : j <= k
               IN  row_count[1] = Len(DictGet(shared_data, RefName(doc.tables[ti].val, j)))
    /\ (pc = "error" /\ si > Len(doc.shared) /\ ti <= Len(doc.tables)
           /\ MissingVar(doc.tables[ti].key))
       => /\ err \in {"ValueError", "IndexError"}
          /\ \E j \in RefCols(doc.tables[ti].val) :
                \/ ~DictHas(shared_data, RefName(doc.tables[ti].val, j))
                \/ Len(DictGet(shared_data, RefName(doc.tables[ti].val, j))) = 0

\* a finished table t[[NT]], NT not in config, of the two rows of the shared
\* column a its first column references; the other shared column has three
C20_Witness ==
    /\ pc = "done"
    /\ Len(all_tables) = 1
    /\ all_tables[1].key = N_t \o S_LL \o V_NT \o S_RR
    /\ ~DictHas(doc.config, V_NT)
    /\ Len(all_tables[1].val) = 2
    /\ DictHas(shared_data, N_a) /\ Len(DictGet(shared_data, N_a)) = 2
    /\ DictHas(shared_data, N_b) /\ Len(DictGet(shared_data, N_b)) = 3

-----------------------------------------------------------------------------
(* What the claims about the shared section are stated with *)

\* 'unique_' followed by i in four digits, for i below 10
UniqueStrAt(i) == <<"str", <<"u", "n", "i", "q", "u", "e", "_", "0", "0", "0", Digits[i + 1]>>>>

\* value r of a column generated for value_spec is the value of that value-spec
\* at row index r - 1, the shared columns generated before being sd
ValueAtRowIndex(col, r, value_spec, sd) ==
    IF value_spec = UniqueInt THEN col[r] = <<"int", 1000 + r - 1>>
    ELSE IF value_spec = UniqueStr THEN col[r] = UniqueStrAt(r - 1)
    ELSE LET s == DictGet(sd, N_a)
         IN  IF r <= Len(s) THEN col[r] = s[r]
             ELSE \E q \in 1..Len(s) : col[r] = s[q]

(* C21: every generated shared column is stored under the name of its key,    *)
(* without the row-count annotation; it has exactly the explicit count of      *)
(* values when the key gives one (name[k], or name[[VAR]] with VAR in config,  *)
(* also for k = 0), and between 10 and 50 values when it gives none; value i   *)
(* of the column is the value of the column's value-spec at row index i.       *)
C21_SharedColumnStored ==
    [][si' = si + 1
       => LET key == doc.shared[si].key
              counts == ExplicitCounts(key, doc.config)
          IN  /\ \A i \in 1..Len(shared_data') : shared_data'[i].key \in Names
              /\ DictHas(shared_data', NameOf(key))
              /\ LET col == DictGet(shared_data', NameOf(key))
                 IN  /\ \A k \in counts : Len(col) = k
                     /\ counts = {} => Len(col) \in 10..50
                     /\ \A r \in 1..Len(col) :
                          ValueAtRowIndex(col, r, doc.shared[si].val, shared_data)
      ]_vars

\* the shared column of the key a[[NA]], NA being 0 in config, is stored as a
\* and empty
C21_Witness ==
    /\ si > Len(doc.shared)
    /\ doc.shared[1].key = N_a \o S_LL \o V_NA \o S_RR
    /\ doc.config = <<Entry(V_NA, 0)>>
    /\ shared_data = <<Entry(N_a, <<>>)>>

\* _generate_shared has returned
SharedGenerated == pc \in {"table", "row", "return", "done", "error"} /\ si > Len(doc.shared)

(* C22: once the shared section has been generated the shared data is never    *)
(* changed: generating tables leaves the names of the shared columns and the   *)
(* length and contents of every shared column as they are; the document        *)
(* (config, shared, tables) is not modified by create_table.                   *)
C22_SharedReadOnly ==
    [][/\ doc' = doc
       /\ SharedGenerated => shared_data' = shared_data]_vars

\* two tables were generated from a shared column of one value, the first of
\* them with three rows, and the shared column still has its one value
C22_Witness ==
    /\ pc = "done"
    /\ Len(all_tables) = 2
    /\ Len(all_tables[1].val) = 3
    /\ Len(all_tables[2].val) = 2
    /\ shared_data = <<Entry(N_a, <<PyInt(1000)>>)>>

-----------------------------------------------------------------------------
(* What the claims about the writers are stated with *)

\* _write_tables was called: generation is complete and a destination is given
WriteCalled ==
    /\ pc \in {"return", "done", "error"}
    /\ ~GenerationFailed
    /\ args # NoArgs
    /\ args.dest # None

(* C23: writing a table of zero rows in the csv format or in the parquet       *)
(* format is a no-op, the same for both: no error is raised and no data file   *)
(* is written (the csv writer opens no file, the parquet writer issues no      *)
(* write to pyarrow).                                                          *)
C23_EmptyTableIsNoOp ==
    (WriteCalled /\ args.file_type \in {S_csv, S_parquet} /\ args.pyarrow)
    => /\ pc # "error"
       /\ \A f \in Outputs : f.rows # <<>>

(* C24: with the parquet format requested and pyarrow not installed,           *)
(* create_table fails with a dependency error (ImportError) once generation is *)
(* complete and writes no data file; with csv, json or ld-json it does not     *)
(* depend on pyarrow and succeeds with or without it.                          *)
C24_ParquetNeedsBackend ==
    WriteCalled
    => IF args.file_type = S_parquet
       THEN ~args.pyarrow => (pc = "error" /\ err = "ImportError" /\ Outputs = {})
       ELSE pc # "error"

\* where the table of entry i of all_tables is written
OutputPath(i) ==
    IF Len(all_tables) = 1 THEN args.dest[1]
    ELSE Append(args.dest[1], all_tables[i].key \o <<".">> \o args.file_type)

C26_SharedRefsAfterShared ==
    /\ (pc = "row" \/ Len(all_tables) > 0) => si > Len(doc.shared)
    /\ (pc = "error" /\ si <= Len(doc.shared) /\ IsSharedRef(doc.shared[si].val))
       => SharedColName(doc.shared[si].val) \notin DefinedShared

-----------------------------------------------------------------------------
(* What the claims about the form of a value-spec are stated with *)

(* C27: a value-spec is a shared reference only when it is exactly [[name]],   *)
(* with a single bracketed name; a string that begins with [[ and ends with ]] *)
(* and has further brackets in between, such as '[[a]] and [[b]]', is not      *)
(* looked up as a shared column and raises no undefined-shared-column error.   *)
C27_OnlyExactRefIsLookedUp ==
    TheSpec \in EmbeddedRefSpecs => ~(pc = "error" /\ err = "ValueError")

(* C28: every entry of the shared section yields a shared column of its own:   *)
(* after shared generation there are as many shared columns as the section has *)
(* entries, also when two entries differ in their row-count annotation only    *)
(* (a[1] and a[2]), and the values generated for no entry are discarded.       *)
C28_EveryEntryItsColumn ==
    SharedGenerated => Len(shared_data) = Len(doc.shared)

\* every generated table has rows, and every row has the partition columns
HasPartitionColumns ==
    \A i \in 1..Len(all_tables) :
        /\ Len(all_tables[i].val) >= 1
        /\ \A r \in 1..Len(all_tables[i].val) :
               \A c \in 1..Len(args.partition_cols[1]) :
                   DictHas(all_tables[i].val[r], args.partition_cols[1][c])

\* the partitioned parquet datasets written
Datasets == {f \in fs : f.kind = "dataset"}

(* C29: with partition columns given for the parquet format, the partitioned   *)
(* output of every table is rooted at a location of its own: for a document of *)
(* one table the dataset is rooted at the destination path, not at its parent  *)
(* directory, and for a document of several tables no two tables are written   *)
(* under the same dataset root.                                                *)
C29_PartitionRootPerTable ==
    (pc \in {"return", "done"} /\ args # NoArgs /\ args.dest # None
        /\ args.file_type = S_parquet /\ args.partition_cols # None /\ args.pyarrow
        /\ HasPartitionColumns)
    => IF Len(all_tables) = 1
       THEN Datasets # {} /\ \A f \in Datasets : f.path = args.dest[1]
       ELSE Cardinality(Datasets) = Len(all_tables)

(* C30: a column whose value-spec is a scalar that is no str, such as the int  *)
(* 30 or the bool True, is handled like a literal: generation does not fail    *)
(* and every row holds that value unchanged.                                   *)
C30_NonStrIsLiteral ==
    TheSpec \in NonStrSpecs
    => /\ ~GenerationFailed
       /\ \A r \in 1..Len(Cells) : Cells[r] = TheSpec

====
